---- MODULE Spec2Model ----
(***************************************************************************)
(* A model of the PBFT-style voting replica of DC-Mini-Project.            *)
(*                                                                         *)
(*   src/blockchain/block.py, blockchain.py   blocks and the ledger        *)
(*   src/bft/node.py                          the replica (set-based)      *)
(*   src/but/node.py                          the replica (list-based)     *)
(*   src/voting/api.py                        the transport that calls the *)
(*                                            handlers, one thread per     *)
(*                                            request                      *)
(*                                                                         *)
(* The specifications share the variables:                                 *)
(*   Spec      one bft/node.py replica, handlers run one after another     *)
(*   SpecBut   one but/node.py replica, handlers run one after another     *)
(*   SpecConc  one bft/node.py replica, handlers interleaved statement by  *)
(*             statement by the request threads of voting/api.py           *)
(*   SpecApi   one replica behind the routes of voting/api.py              *)
(*   SpecNet   3f+1 replicas behind the routes of voting/api.py;           *)
(*             SpecNetFair adds that every pending post is made            *)
(*   SpecProto 3f+1 replicas of bft/node.py with broadcasts driven by the  *)
(*             handler statuses, the primary Byzantine                     *)
(***************************************************************************)
EXTENDS Integers, Sequences, FiniteSets, TLC

(***************************************************************************)
(* Bounds of the model.                                                    *)
(***************************************************************************)
\* sender ids are 1..MaxSender
MaxSender == 3
\* FAULTY_NODES (config.py, not part of the sources) ranges over 0..MaxF
MaxF == 1
\* the ledger holds at most MaxChain blocks, genesis included
MaxChain == 3
\* at most MaxVotes sender ids are recorded at a time, over both phases
MaxVotes == 4
\* the request threads of the transport are 1..NThreads
NThreads == 2
\* votes_to_process holds at most MaxBuffer votes
MaxBuffer == 2

Senders == 1..MaxSender
Threads == 1..NThreads

(***************************************************************************)
(* Blocks: block.py.  A hash is a number; 0 is the string "0" that the     *)
(* genesis block names as its predecessor.                                 *)
(***************************************************************************)
\* Python's None, and a slot that holds no block
None == [none |-> TRUE]

\* the previous_hash "0" of the genesis block
ZeroHash == 0

\* the vote records that make up a transaction batch
VoteIds == {1, 2}

\* the batch the primary proposes (two votes: api.py proposes at 2 votes)
Batch == <<1, 2>>

\* json.dumps of a transaction list, as a number: injective on sequences
\* over VoteIds
RECURSIVE TxCode(_)
TxCode(tx) ==
    IF tx = <<>> THEN 0
    ELSE Head(tx) + (Cardinality(VoteIds) + 1) * TxCode(Tail(tx))

\* the codes of the batches of at most two votes stay below TxSpan
TxSpan == (Cardinality(VoteIds) + 1) * (Cardinality(VoteIds) + 1)

\* sha256 over the serialised fields: deterministic, and injective on the
\* blocks of the model (index <= MaxChain + 1, batches of at most two votes).
\* timestamp and nonce are the same for all blocks of the model.
compute_hash(index, transactions, previous_hash) ==
    1 + index + (MaxChain + 2) * (TxCode(transactions) + TxSpan * previous_hash)

\* Block.__init__: the hash is computed once, from the other fields
Block(index, transactions, previous_hash) ==
    [index |-> index, transactions |-> transactions,
     previous_hash |-> previous_hash,
     hash |-> compute_hash(index, transactions, previous_hash)]

\* Blockchain.create_genesis_block
GenesisBlock == Block(0, <<>>, ZeroHash)

\* Blockchain.last_block
last_block(c) == c[Len(c)]

\* Node.create_block: a block chained onto the tail of the ledger c
create_block(c, votes) ==
    Block(last_block(c).index + 1, votes, last_block(c).hash)

(***************************************************************************)
(* The blocks a PRE-PREPARE may carry.  The handler validates nothing, so  *)
(* a block may arrive at a ledger it does not link to (Block2 at the       *)
(* genesis-only ledger, Block1 at a ledger that already holds it).         *)
(***************************************************************************)
\* the first block an honest primary proposes
Block1 == create_block(<<GenesisBlock>>, Batch)
\* the block an honest primary proposes after Block1 is committed; it links
\* to no other ledger
Block2 == create_block(<<GenesisBlock, Block1>>, Batch)

ProposedBlocks == {Block1, Block2}

\* the node ids a PRE-PREPARE names as its sender
PrimaryIds == {1}

\* the hashes PREPARE and COMMIT messages refer to
VoteHashes == {b.hash : b \in ProposedBlocks}

(***************************************************************************)
(* Messages: message.py.  block_data is the whole block for PRE-PREPARE    *)
(* and {"hash": h} for PREPARE and COMMIT.                                 *)
(***************************************************************************)
PrePrepareMessage(view, block, sender_id) ==
    [view |-> view, sender_id |-> sender_id,
     message_type |-> "PRE-PREPARE", block_data |-> block]

PrepareMessage(view, block_hash, sender_id) ==
    [view |-> view, sender_id |-> sender_id,
     message_type |-> "PREPARE", block_data |-> [hash |-> block_hash]]

CommitMessage(view, block_hash, sender_id) ==
    [view |-> view, sender_id |-> sender_id,
     message_type |-> "COMMIT", block_data |-> [hash |-> block_hash]]

\* no handler has been called yet
NoMessage == [message_type |-> "NONE"]

\* a second block on the genesis block, with the votes in the other order
BlockB == create_block(<<GenesisBlock>>, <<2, 1>>)

\* the blocks and hashes of the rounds of the system of replicas
NetBlocks == {Block1, BlockB}
NetHashes == {b.hash : b \in NetBlocks}

\* Node.__init__: the fields of a replica of the system
NewNode ==
    [chain |-> <<GenesisBlock>>, pending_block |-> None,
     prepare_messages |-> [h \in NetHashes |-> {}],
     commit_messages |-> [h \in NetHashes |-> {}]]

VARIABLES
    f,                  \* FAULTY_NODES
    chain,              \* node.blockchain.chain
    pending_block,      \* node.pending_block
    prepare_messages,   \* node.prepare_messages: hash -> set of sender ids
    commit_messages,    \* node.commit_messages: hash -> set of sender ids
    message,            \* the message of the last handler call
    response,           \* the status the last handler call returned
    but_pending_block,    \* but/node.py: node.pending_block
    but_prepare_messages, \* but/node.py: hash -> list of sender ids
    but_commit_messages,  \* but/node.py: hash -> list of sender ids
    pc,                 \* per request thread: the statement it is at
    req,                \* per request thread: the message it handles
    is_primary,         \* node.is_primary
    votes_to_process,   \* voting/api.py: the votes not yet in a block
    new_block,          \* propose_block: what the last create_block gave
    outbox,             \* the requests voting/api.py has posted
    nodes,              \* the system: per replica, the fields of its Node
    net                 \* the system: the posts still to be made, in order

nodeVars == <<chain, pending_block, prepare_messages, commit_messages>>
butVars == <<but_pending_block, but_prepare_messages, but_commit_messages>>
threadVars == <<pc, req>>
apiVars == <<is_primary, votes_to_process, new_block, outbox>>
netVars == <<nodes, net>>
vars == <<f, chain, pending_block, prepare_messages, commit_messages,
          message, response, but_pending_block, but_prepare_messages,
          but_commit_messages, pc, req, is_primary, votes_to_process,
          new_block, outbox, nodes, net>>

(***************************************************************************)
(* Node.__init__ of both node modules, and the idle request threads.       *)
(***************************************************************************)
InitState ==
    /\ f \in 0..MaxF
    /\ chain = <<GenesisBlock>>
    /\ pending_block = None
    /\ prepare_messages = [h \in VoteHashes |-> {}]
    /\ commit_messages = [h \in VoteHashes |-> {}]
    /\ message = NoMessage
    /\ response = "NONE"
    /\ but_pending_block = None
    /\ but_prepare_messages = [h \in VoteHashes |-> <<>>]
    /\ but_commit_messages = [h \in VoteHashes |-> <<>>]
    /\ pc = [t \in Threads |-> "idle"]
    /\ req = [t \in Threads |-> NoMessage]
    /\ votes_to_process = <<>>
    /\ new_block = None
    /\ outbox = {}
    /\ net = <<>>

\* Node(node_id): is_primary defaults to False; one replica, no system
Init == InitState /\ is_primary = FALSE /\ nodes = <<>>

(***************************************************************************)
(* bft/node.py                                                             *)
(***************************************************************************)
\* an add_block that overwrites the last block instead of appending
add_blockOverTail(c, block) == Append(SubSeq(c, 1, Len(c) - 1), block)

\* Blockchain.add_block: appends, validates nothing
add_block(c, block) == Append(c, block)

\* "if block_hash not in d: d[block_hash] = set()" and "d[block_hash].add(s)".
\* A hash with no key is a hash with the empty set.
AddVote(d, block_hash, sender_id) ==
    [d EXCEPT ![block_hash] = @ \cup {sender_id}]

\* d.pop(block_hash, None)
Pop(d, block_hash) == [d EXCEPT ![block_hash] = {}]

\* a prepared threshold that is one vote too high
PrepareThresholdOneMore == 2 * f + 1

\* the prepared threshold of handle_prepare
PrepareThreshold == 2 * f

\* the committed threshold of handle_commit
CommitThreshold == 2 * f + 1

\* a test of the pending block that forgets to compare the hash
PendingPresent(block_hash) == pending_block # None

\* "self.pending_block and self.pending_block['hash'] == block_hash"
PendingMatches(block_hash) ==
    /\ pending_block # None
    /\ pending_block.hash = block_hash

\* a reset that forgets the PREPARE votes of the round
ResetStateKeepsPrepare(prep, comm, block_hash) ==
    [pending_block |-> None,
     prepare_messages |-> prep,
     commit_messages |-> Pop(comm, block_hash)]

\* Node._reset_state: the fields after the reset
ResetState(prep, comm, block_hash) ==
    [pending_block |-> None,
     prepare_messages |-> Pop(prep, block_hash),
     commit_messages |-> Pop(comm, block_hash)]

\* a handle_pre_prepare that accepts a block only when none is pending
HandlePrePrepareIfIdle(m) ==
    /\ pending_block' = IF pending_block = None THEN m.block_data
                        ELSE pending_block
    /\ message' = m
    /\ response' = IF pending_block = None THEN "PREPARE_BROADCASTED"
                   ELSE "REJECTED"
    /\ UNCHANGED <<f, chain, prepare_messages, commit_messages>>
    /\ UNCHANGED <<butVars, threadVars>>

\* Node.handle_pre_prepare
HandlePrePrepare(m) ==
    /\ pending_block' = m.block_data
    /\ message' = m
    /\ response' = "PREPARE_BROADCASTED"
    /\ UNCHANGED <<f, chain, prepare_messages, commit_messages>>
    /\ UNCHANGED <<butVars, threadVars>>

\* a handle_prepare that records a vote only for the pending block's hash
HandlePrepareIfPending(m) ==
    LET block_hash == m.block_data.hash
        votes == IF PendingMatches(block_hash)
                 THEN AddVote(prepare_messages, block_hash, m.sender_id)
                 ELSE prepare_messages
    IN  /\ prepare_messages' = votes
        /\ message' = m
        /\ response' = IF Cardinality(votes[block_hash]) >= PrepareThreshold
                       THEN "COMMIT_BROADCASTED"
                       ELSE "WAITING_FOR_MORE_PREPARES"
        /\ UNCHANGED <<f, chain, pending_block, commit_messages>>
        /\ UNCHANGED <<butVars, threadVars>>

\* Node.handle_prepare
HandlePrepare(m) ==
    LET block_hash == m.block_data.hash
        votes == AddVote(prepare_messages, block_hash, m.sender_id)
    IN  /\ prepare_messages' = votes
        /\ message' = m
        /\ response' = IF Cardinality(votes[block_hash]) >= PrepareThreshold
                       THEN "COMMIT_BROADCASTED"
                       ELSE "WAITING_FOR_MORE_PREPARES"
        /\ UNCHANGED <<f, chain, pending_block, commit_messages>>
        /\ UNCHANGED <<butVars, threadVars>>

\* Node.handle_commit
HandleCommit(m) ==
    LET block_hash == m.block_data.hash
        votes == AddVote(commit_messages, block_hash, m.sender_id)
        reset == ResetState(prepare_messages, votes, block_hash)
    IN  /\ message' = m
        /\ IF /\ Cardinality(votes[block_hash]) >= CommitThreshold
              /\ PendingMatches(block_hash)
           THEN /\ chain' = add_block(chain, pending_block)
                /\ pending_block' = reset.pending_block
                /\ prepare_messages' = reset.prepare_messages
                /\ commit_messages' = reset.commit_messages
                /\ response' = "BLOCK_ADDED"
           ELSE /\ commit_messages' = votes
                /\ response' = "WAITING_FOR_MORE_COMMITS"
                /\ UNCHANGED <<chain, pending_block, prepare_messages>>
        /\ UNCHANGED f
        /\ UNCHANGED <<butVars, threadVars>>

(***************************************************************************)
(* The deliveries the model explores.                                      *)
(***************************************************************************)
\* the number of sender ids a vote table holds
RECURSIVE Held(_, _)
Held(d, hs) ==
    IF hs = {} THEN 0
    ELSE LET h == CHOOSE x \in hs : TRUE
         IN  Cardinality(d[h]) + Held(d, hs \ {h})

\* a vote of sender_id for block_hash fits the model's bound on d
Room(d, block_hash, sender_id) ==
    \/ sender_id \in d[block_hash]
    \/ Held(prepare_messages, VoteHashes) + Held(commit_messages, VoteHashes)
           < MaxVotes

DeliverPrePrepare ==
    \E b \in ProposedBlocks, s \in PrimaryIds :
        /\ HandlePrePrepare(PrePrepareMessage(0, b, s))
        /\ UNCHANGED <<apiVars, netVars>>

DeliverPrepare ==
    \E h \in VoteHashes, s \in Senders :
        /\ Room(prepare_messages, h, s)
        /\ HandlePrepare(PrepareMessage(0, h, s))
        /\ UNCHANGED <<apiVars, netVars>>

DeliverCommit ==
    \E h \in VoteHashes, s \in Senders :
        /\ Room(commit_messages, h, s)
        /\ Len(chain) < MaxChain
        /\ HandleCommit(CommitMessage(0, h, s))
        /\ UNCHANGED <<apiVars, netVars>>

Next == DeliverPrePrepare \/ DeliverPrepare \/ DeliverCommit

Spec == Init /\ [][Next]_vars

(***************************************************************************)
(* but/node.py: the same handlers over lists of sender ids.  voting/api.py *)
(* posts these messages: {"view", "block", "sender_id"}.                   *)
(***************************************************************************)
\* the JSON body voting/api.py posts to /pre-prepare, /prepare and /commit
ApiMessage(message_type, view, block, sender_id) ==
    [view |-> view, block |-> block, sender_id |-> sender_id,
     message_type |-> message_type]

\* "if block_hash not in d: d[block_hash] = []" and
\* "d[block_hash].append(sender_id)"
AppendVote(d, block_hash, sender_id) ==
    [d EXCEPT ![block_hash] = Append(@, sender_id)]

\* d.pop(block_hash, None) on a table of lists
PopList(d, block_hash) == [d EXCEPT ![block_hash] = <<>>]

\* but/node.py Node.handle_pre_prepare
ButHandlePrePrepare(m) ==
    /\ but_pending_block' = m.block
    /\ message' = m
    /\ response' = "PREPARED"
    /\ UNCHANGED <<f, but_prepare_messages, but_commit_messages>>
    /\ UNCHANGED <<nodeVars, threadVars, apiVars, netVars>>

\* but/node.py Node.handle_prepare
ButHandlePrepare(m) ==
    LET block_hash == m.block.hash
        votes == AppendVote(but_prepare_messages, block_hash, m.sender_id)
    IN  /\ but_prepare_messages' = votes
        /\ message' = m
        /\ response' = IF Len(votes[block_hash]) >= 2 * f
                       THEN "COMMITTED"
                       ELSE "WAITING_FOR_PREPARES"
        /\ UNCHANGED <<f, but_pending_block, but_commit_messages>>
        /\ UNCHANGED <<nodeVars, threadVars, apiVars, netVars>>

\* but/node.py Node.handle_commit (the add_block call is commented out)
ButHandleCommit(m) ==
    LET block_hash == m.block.hash
        votes == AppendVote(but_commit_messages, block_hash, m.sender_id)
    IN  /\ message' = m
        /\ IF Len(votes[block_hash]) >= 2 * f + 1
           THEN /\ but_pending_block' = None
                /\ but_prepare_messages' =
                       PopList(but_prepare_messages, block_hash)
                /\ but_commit_messages' = PopList(votes, block_hash)
                /\ response' = "BLOCK_ADDED"
           ELSE /\ but_commit_messages' = votes
                /\ response' = "WAITING_FOR_COMMITS"
                /\ UNCHANGED <<but_pending_block, but_prepare_messages>>
        /\ UNCHANGED f
        /\ UNCHANGED <<nodeVars, threadVars, apiVars, netVars>>

\* the number of sender ids a table of lists holds
RECURSIVE HeldList(_, _)
HeldList(d, hs) ==
    IF hs = {} THEN 0
    ELSE LET h == CHOOSE x \in hs : TRUE
         IN  Len(d[h]) + HeldList(d, hs \ {h})

\* one more list entry fits the model's bound
ButRoom ==
    HeldList(but_prepare_messages, VoteHashes)
        + HeldList(but_commit_messages, VoteHashes) < MaxVotes

ButDeliverPrePrepare ==
    \E b \in ProposedBlocks, s \in PrimaryIds :
        ButHandlePrePrepare(ApiMessage("PRE-PREPARE", 0, b, s))

ButDeliverPrepare ==
    \E h \in VoteHashes, s \in Senders :
        /\ ButRoom
        /\ ButHandlePrepare(ApiMessage("PREPARE", 0, [hash |-> h], s))

ButDeliverCommit ==
    \E h \in VoteHashes, s \in Senders :
        /\ ButRoom
        /\ ButHandleCommit(ApiMessage("COMMIT", 0, [hash |-> h], s))

NextBut == ButDeliverPrePrepare \/ ButDeliverPrepare \/ ButDeliverCommit

SpecBut == Init /\ [][NextBut]_vars

(***************************************************************************)
(* voting/api.py: app.run serves every request on a thread of its own, and *)
(* the routes call the handlers of the one module-level node with no lock. *)
(* A request thread runs its handler of bft/node.py statement by           *)
(* statement; the threads interleave between statements.                   *)
(***************************************************************************)
\* the requests of the interleaved model concern one round: the block the
\* primary proposes first, and the votes for its hash
ConcBlocks == {Block1}
ConcHashes == {b.hash : b \in ConcBlocks}

\* thread t is at statement l
At(t, l) == pc[t] = l

\* thread t moves to statement l
Goto(t, l) == pc' = [pc EXCEPT ![t] = l]

\* thread t returns status st for its message
Return(t, st) ==
    /\ pc' = [pc EXCEPT ![t] = "idle"]
    /\ message' = req[t]
    /\ response' = st
    /\ req' = [req EXCEPT ![t] = NoMessage]

\* the routes pre_prepare, prepare and commit: a request arrives, and the
\* thread enters the handler for it
Receive(t) ==
    /\ At(t, "idle")
    /\ \/ \E b \in ConcBlocks, s \in PrimaryIds :
              /\ req' = [req EXCEPT ![t] = PrePrepareMessage(0, b, s)]
              /\ Goto(t, "pre_prepare")
       \/ \E h \in ConcHashes, s \in Senders :
              /\ Room(prepare_messages, h, s)
              /\ req' = [req EXCEPT ![t] = PrepareMessage(0, h, s)]
              /\ Goto(t, "prepare_add")
       \/ \E h \in ConcHashes, s \in Senders :
              /\ Room(commit_messages, h, s)
              /\ req' = [req EXCEPT ![t] = CommitMessage(0, h, s)]
              /\ Goto(t, "commit_add")
    /\ UNCHANGED <<f, nodeVars, message, response, butVars, apiVars, netVars>>

\* handle_pre_prepare: the assignment to pending_block, and the return
PrePrepareStore(t) ==
    /\ At(t, "pre_prepare")
    /\ pending_block' = req[t].block_data
    /\ Return(t, "PREPARE_BROADCASTED")
    /\ UNCHANGED <<f, chain, prepare_messages, commit_messages, butVars,
                   apiVars, netVars>>

\* handle_prepare: the insertion into prepare_messages
PrepareAdd(t) ==
    /\ At(t, "prepare_add")
    /\ prepare_messages' =
           AddVote(prepare_messages, req[t].block_data.hash, req[t].sender_id)
    /\ Goto(t, "prepare_len")
    /\ UNCHANGED <<f, chain, pending_block, commit_messages, message,
                   response, req, butVars, apiVars, netVars>>

\* handle_prepare: the threshold test, and the return
PrepareLen(t) ==
    /\ At(t, "prepare_len")
    /\ Return(t, IF Cardinality(prepare_messages[req[t].block_data.hash])
                        >= PrepareThreshold
                 THEN "COMMIT_BROADCASTED"
                 ELSE "WAITING_FOR_MORE_PREPARES")
    /\ UNCHANGED <<f, nodeVars, butVars, apiVars, netVars>>

\* handle_commit: the insertion into commit_messages
CommitAdd(t) ==
    /\ At(t, "commit_add")
    /\ commit_messages' =
           AddVote(commit_messages, req[t].block_data.hash, req[t].sender_id)
    /\ Goto(t, "commit_len")
    /\ UNCHANGED <<f, chain, pending_block, prepare_messages, message,
                   response, req, butVars, apiVars, netVars>>

\* handle_commit: the threshold test
CommitLen(t) ==
    /\ At(t, "commit_len")
    /\ IF Cardinality(commit_messages[req[t].block_data.hash])
              >= CommitThreshold
       THEN /\ Goto(t, "commit_match")
            /\ UNCHANGED <<message, response, req>>
       ELSE Return(t, "WAITING_FOR_MORE_COMMITS")
    /\ UNCHANGED <<f, nodeVars, butVars, apiVars, netVars>>

\* handle_commit: the test of pending_block against the hash
CommitMatch(t) ==
    /\ At(t, "commit_match")
    /\ IF PendingMatches(req[t].block_data.hash)
       THEN /\ Goto(t, "commit_append")
            /\ UNCHANGED <<message, response, req>>
       ELSE Return(t, "WAITING_FOR_MORE_COMMITS")
    /\ UNCHANGED <<f, nodeVars, butVars, apiVars, netVars>>

\* handle_commit: add_block(self.pending_block), which reads pending_block
\* again
CommitAppend(t) ==
    /\ At(t, "commit_append")
    /\ Len(chain) < MaxChain
    /\ chain' = add_block(chain, pending_block)
    /\ Goto(t, "commit_log")
    /\ UNCHANGED <<f, pending_block, prepare_messages, commit_messages,
                   message, response, req, butVars, apiVars, netVars>>

\* handle_commit: the print of pending_block['index'], a TypeError when
\* another thread has reset pending_block to None meanwhile
CommitLog(t) ==
    /\ At(t, "commit_log")
    /\ IF pending_block = None
       THEN Return(t, "INTERNAL_SERVER_ERROR")
       ELSE /\ Goto(t, "commit_reset")
            /\ UNCHANGED <<message, response, req>>
    /\ UNCHANGED <<f, nodeVars, butVars, apiVars, netVars>>

\* handle_commit: _reset_state, and the return
CommitReset(t) ==
    LET reset == ResetState(prepare_messages, commit_messages,
                            req[t].block_data.hash)
    IN  /\ At(t, "commit_reset")
        /\ pending_block' = reset.pending_block
        /\ prepare_messages' = reset.prepare_messages
        /\ commit_messages' = reset.commit_messages
        /\ Return(t, "BLOCK_ADDED")
        /\ UNCHANGED <<f, chain, butVars, apiVars, netVars>>

NextConc ==
    \E t \in Threads :
        \/ Receive(t)
        \/ PrePrepareStore(t)
        \/ PrepareAdd(t)
        \/ PrepareLen(t)
        \/ CommitAdd(t)
        \/ CommitLen(t)
        \/ CommitMatch(t)
        \/ CommitAppend(t)
        \/ CommitLog(t)
        \/ CommitReset(t)

SpecConc == Init /\ [][NextConc]_vars

(***************************************************************************)
(* voting/api.py as it runs: one replica, its routes calling the handlers  *)
(* of bft/node.py (api.py imports bft.node), and the requests it posts.    *)
(* The routes test the statuses "PREPARED" and "COMMITTED" and read        *)
(* message['block']; the handlers return PREPARE_BROADCASTED and           *)
(* COMMIT_BROADCASTED and read message['block_data'].                      *)
(***************************************************************************)
\* main.py --id: the primary is node 1, the backup under study is node 2
node_id == IF is_primary THEN 1 ELSE 2

\* NODE_ADDRESSES (config.py): the 3f+1 replicas
NODE_ADDRESSES == 1..(3 * f + 1)

\* requests.post(f"{address}{route}", json=body)
Post(to, route, body) == [to |-> to, route |-> route, body |-> body]

\* the handlers of bft/node.py index the message with ['block_data']
HasBlockData(m) == "block_data" \in DOMAIN m

\* chain[i] is a Block object, with attributes; the blocks handle_commit
\* appends are the dicts of the PRE-PREPARE messages
IsBlockObject(c, i) == i = 1

\* the block the round of the route is about
ApiBlocks == {Block1}
ApiHashes == {b.hash : b \in ApiBlocks}

\* an exception leaves the route: Flask answers 500, the node is unchanged
ServerError(m) ==
    /\ message' = m
    /\ response' = "INTERNAL_SERVER_ERROR"
    /\ UNCHANGED <<f, nodeVars>>
    /\ UNCHANGED <<butVars, threadVars>>

\* propose_block, called with the buffer cast_vote has just extended
propose_block(votes) ==
    IF IsBlockObject(chain, Len(chain))
    THEN LET b == create_block(chain, votes)
         IN  /\ new_block' = b
             /\ votes_to_process' = <<>>
             /\ outbox' = outbox \cup
                    {Post(r, "/pre-prepare",
                          ApiMessage("PRE-PREPARE", 0, b, node_id)) :
                         r \in NODE_ADDRESSES \ {node_id}}
             /\ response' = "VOTE_RECEIVED"
    ELSE \* last_block is a dict: last_block.index raises AttributeError
         /\ new_block' = [raised |-> "AttributeError"]
         /\ votes_to_process' = votes
         /\ response' = "INTERNAL_SERVER_ERROR"
         /\ UNCHANGED outbox

\* the route /vote
cast_vote(v) ==
    LET votes == Append(votes_to_process, v)
    IN  /\ Len(votes_to_process) < MaxBuffer
        /\ message' = [message_type |-> "VOTE", voter_id |-> v]
        /\ IF is_primary /\ Len(votes) >= 2
           THEN propose_block(votes)
           ELSE /\ votes_to_process' = votes
                /\ response' = "VOTE_RECEIVED"
                /\ UNCHANGED <<new_block, outbox>>
        /\ UNCHANGED <<f, nodeVars, is_primary>>
        /\ UNCHANGED <<butVars, threadVars, netVars>>

\* the route /pre-prepare
pre_prepare(m) ==
    /\ IF HasBlockData(m) THEN HandlePrePrepare(m) ELSE ServerError(m)
    /\ outbox' =
           IF response' = "PREPARED"
           THEN outbox \cup
                    {Post(r, "/prepare",
                          ApiMessage("PREPARE", 0, [hash |-> m.block.hash],
                                     node_id)) : r \in NODE_ADDRESSES}
           ELSE outbox
    /\ UNCHANGED <<is_primary, votes_to_process, new_block>>
    /\ UNCHANGED netVars

\* the route /prepare
prepare(m) ==
    /\ IF HasBlockData(m) THEN HandlePrepare(m) ELSE ServerError(m)
    /\ outbox' =
           IF response' = "COMMITTED"
           THEN outbox \cup
                    {Post(r, "/commit",
                          ApiMessage("COMMIT", 0, [hash |-> m.block.hash],
                                     node_id)) : r \in NODE_ADDRESSES}
           ELSE outbox
    /\ UNCHANGED <<is_primary, votes_to_process, new_block>>
    /\ UNCHANGED netVars

\* the route /commit
commit(m) ==
    /\ IF HasBlockData(m) THEN HandleCommit(m) ELSE ServerError(m)
    /\ UNCHANGED <<apiVars, netVars>>

\* a vote arrives
RequestVote == \E v \in VoteIds : cast_vote(v)

\* a PRE-PREPARE arrives, as propose_block posts it or as message.py
\* builds it
RequestPrePrepare ==
    \E b \in ApiBlocks, s \in PrimaryIds :
        \/ pre_prepare(ApiMessage("PRE-PREPARE", 0, b, s))
        \/ pre_prepare(PrePrepareMessage(0, b, s))

\* a PREPARE arrives, in either form
RequestPrepare ==
    \E h \in ApiHashes, s \in Senders :
        \/ prepare(ApiMessage("PREPARE", 0, [hash |-> h], s))
        \/ /\ Room(prepare_messages, h, s)
           /\ prepare(PrepareMessage(0, h, s))

\* a COMMIT arrives, in either form
RequestCommit ==
    \E h \in ApiHashes, s \in Senders :
        \/ commit(ApiMessage("COMMIT", 0, [hash |-> h], s))
        \/ /\ Room(commit_messages, h, s)
           /\ Len(chain) < MaxChain
           /\ commit(CommitMessage(0, h, s))

NextApi ==
    \/ RequestVote
    \/ RequestPrePrepare
    \/ RequestPrepare
    \/ RequestCommit

\* run_app(node_id, is_primary): the replica is the primary or a backup
InitApi == InitState /\ is_primary \in BOOLEAN /\ nodes = <<>>

SpecApi == InitApi /\ [][NextApi]_vars

(***************************************************************************)
(* The system: 3f+1 replicas, each a Node of bft/node.py behind the routes *)
(* of voting/api.py.  requests.post returns when the receiver's route has  *)
(* returned, so the posts of a broadcast are made one after another and    *)
(* the posts a receiver makes in its route come before the sender's next   *)
(* one: net is the sequence of posts still to be made.                     *)
(***************************************************************************)
\* the bound on the posts waiting in net
MaxNet == 9
\* the rounds of the system with a Byzantine primary: its ledgers hold at
\* most MaxRound blocks after the genesis block
MaxRound == 1

\* Node.handle_pre_prepare on the fields n of a replica
handle_pre_prepare(n, m) ==
    [node |-> [n EXCEPT !.pending_block = m.block_data],
     status |-> "PREPARE_BROADCASTED"]

\* Node.handle_prepare on the fields n of a replica
handle_prepare(n, m) ==
    LET block_hash == m.block_data.hash
        votes == AddVote(n.prepare_messages, block_hash, m.sender_id)
    IN  [node |-> [n EXCEPT !.prepare_messages = votes],
         status |-> IF Cardinality(votes[block_hash]) >= PrepareThreshold
                    THEN "COMMIT_BROADCASTED"
                    ELSE "WAITING_FOR_MORE_PREPARES"]

\* Node.handle_commit on the fields n of a replica
handle_commit(n, m) ==
    LET block_hash == m.block_data.hash
        votes == AddVote(n.commit_messages, block_hash, m.sender_id)
        reset == ResetState(n.prepare_messages, votes, block_hash)
    IN  IF /\ Cardinality(votes[block_hash]) >= CommitThreshold
           /\ n.pending_block # None
           /\ n.pending_block.hash = block_hash
        THEN [node |-> [chain |-> add_block(n.chain, n.pending_block),
                        pending_block |-> reset.pending_block,
                        prepare_messages |-> reset.prepare_messages,
                        commit_messages |-> reset.commit_messages],
              status |-> "BLOCK_ADDED"]
        ELSE [node |-> [n EXCEPT !.commit_messages = votes],
              status |-> "WAITING_FOR_MORE_COMMITS"]

\* the handler a route calls
Handler(n, route, m) ==
    CASE route = "/pre-prepare" -> handle_pre_prepare(n, m)
      [] route = "/prepare" -> handle_prepare(n, m)
      [] route = "/commit" -> handle_commit(n, m)

\* "for node_id, address in NODE_ADDRESSES.items(): requests.post(...)":
\* one post per replica, the sender included, in the order of the ids
Broadcast(route, body) ==
    [q \in 1..(3 * f + 1) |-> Post(q, route, body)]

\* the routes /pre-prepare, /prepare and /commit of replica r on the post p:
\* the node after the handler, and the posts the route then makes
Route(n, r, p) ==
    LET m == p.body
        h == Handler(n, p.route, m)
    IN  IF ~HasBlockData(m)
        THEN [node |-> n, posts |-> <<>>]
        ELSE [node |-> h.node,
              posts |->
                  IF p.route = "/pre-prepare" /\ h.status = "PREPARED"
                  THEN Broadcast("/prepare",
                           ApiMessage("PREPARE", 0, [hash |-> m.block.hash],
                                      r))
                  ELSE IF p.route = "/prepare" /\ h.status = "COMMITTED"
                  THEN Broadcast("/commit",
                           ApiMessage("COMMIT", 0, [hash |-> m.block.hash],
                                      r))
                  ELSE <<>>]

\* the primary of the system is replica 1
Primary == 1

\* the next post is made: the receiver's route runs
NetDeliver ==
    /\ net # <<>>
    /\ LET p == Head(net)
           res == Route(nodes[p.to], p.to, p)
       IN  /\ nodes' = [nodes EXCEPT ![p.to] = res.node]
           /\ net' = res.posts \o Tail(net)
    /\ UNCHANGED <<f, nodeVars, message, response>>
    /\ UNCHANGED <<butVars, threadVars, apiVars>>

\* /vote at the primary: cast_vote, and propose_block at two votes; the
\* PRE-PREPARE posts join the posts still to be made
NetVote ==
    \E v \in VoteIds :
        LET votes == Append(votes_to_process, v)
            b == create_block(nodes[Primary].chain, votes)
        IN  /\ Len(net) + 3 * f <= MaxNet
            /\ IF is_primary /\ Len(votes) >= 2
               THEN /\ new_block' = b
                    /\ votes_to_process' = <<>>
                    /\ net' = net \o
                           SelectSeq(Broadcast("/pre-prepare",
                                         ApiMessage("PRE-PREPARE", 0, b,
                                                    Primary)),
                                     LAMBDA p : p.to # Primary)
               ELSE /\ votes_to_process' = votes
                    /\ UNCHANGED <<new_block, net>>
            /\ UNCHANGED <<f, nodeVars, message, response>>
            /\ UNCHANGED <<butVars, threadVars>>
            /\ UNCHANGED <<is_primary, outbox, nodes>>

NextNet == NetVote \/ NetDeliver

\* a system with faults to tolerate, all replicas running voting/api.py;
\* the buffer and new_block are those of the primary
InitNet ==
    /\ InitState
    /\ f >= 1
    /\ is_primary = TRUE
    /\ nodes = [r \in 1..(3 * f + 1) |-> NewNode]

SpecNet == InitNet /\ [][NextNet]_vars

\* every post that is still to be made is made: requests.post returns or
\* raises, and the loop goes on
SpecNetFair == SpecNet /\ WF_vars(NetDeliver)

(***************************************************************************)
(* The system with the transport the handlers are written for: a route     *)
(* acts on the status its handler returns (PREPARE_BROADCASTED: broadcast  *)
(* PREPARE; COMMIT_BROADCASTED: broadcast COMMIT) and the messages are     *)
(* those of bft/message.py.  Replica 1, the primary, is Byzantine: it      *)
(* posts any message in its own name to any replica.                       *)
(***************************************************************************)
\* the Byzantine replicas: f of the 3f+1, the primary first
Byzantine == 1..f

\* a route that broadcasts what the status of its handler names
RouteByStatus(n, r, p) ==
    LET m == p.body
        h == Handler(n, p.route, m)
    IN  [node |-> h.node,
         posts |->
             IF h.status = "PREPARE_BROADCASTED"
             THEN Broadcast("/prepare",
                      PrepareMessage(0, h.node.pending_block.hash, r))
             ELSE IF h.status = "COMMIT_BROADCASTED"
             THEN Broadcast("/commit",
                      CommitMessage(0, m.block_data.hash, r))
             ELSE <<>>]

\* the next post is made; a Byzantine receiver does with it what it likes
ProtoDeliver ==
    /\ net # <<>>
    /\ LET p == Head(net)
           res == RouteByStatus(nodes[p.to], p.to, p)
       IN  IF p.to \in Byzantine
           THEN /\ net' = Tail(net)
                /\ UNCHANGED nodes
           ELSE /\ nodes' = [nodes EXCEPT ![p.to] = res.node]
                /\ net' = res.posts \o Tail(net)
    /\ UNCHANGED <<f, nodeVars, message, response>>
    /\ UNCHANGED <<butVars, threadVars, apiVars>>

\* a Byzantine primary posts a PRE-PREPARE to one replica, once the posts of
\* the last request are made: it may propose different blocks to different
\* replicas
ByzPrePrepare ==
    \E r \in DOMAIN nodes, b \in NetBlocks, s \in Byzantine :
        /\ net = <<>>
        /\ r \notin Byzantine
        /\ Len(nodes[r].chain) <= MaxRound
        /\ net' = <<Post(r, "/pre-prepare", PrePrepareMessage(0, b, s))>>
        /\ UNCHANGED <<f, nodeVars, message, response, nodes>>
        /\ UNCHANGED <<butVars, threadVars, apiVars>>

\* a Byzantine replica broadcasts the message m in its own name
ByzBroadcast(route, m) ==
    /\ net = <<>>
    /\ net' = Broadcast(route, m)
    /\ UNCHANGED <<f, nodeVars, message, response, nodes>>
    /\ UNCHANGED <<butVars, threadVars, apiVars>>

ByzPrepare ==
    \E h \in NetHashes, s \in Byzantine :
        ByzBroadcast("/prepare", PrepareMessage(0, h, s))

ByzCommit ==
    \E h \in NetHashes, s \in Byzantine :
        ByzBroadcast("/commit", CommitMessage(0, h, s))

NextProto == ByzPrePrepare \/ ByzPrepare \/ ByzCommit \/ ProtoDeliver

SpecProto == InitNet /\ [][NextProto]_vars

(***************************************************************************)
(* Properties.                                                             *)
(***************************************************************************)
\* the ledger c holds a block with hash h
Holds(c, h) == \E i \in 1..Len(c) : c[i] # None /\ c[i].hash = h

\* block b links to block a
Links(a, b) == b.previous_hash = a.hash /\ b.index = a.index + 1

\* the step is a call of a handler for a message of type ty
Handled(ty) == message'.message_type = ty

\* the replica holds the body of the block with hash h and a COMMIT quorum
\* for h, and has not appended it
HeldBack(h) ==
    /\ Cardinality(commit_messages[h]) >= CommitThreshold
    /\ PendingMatches(h)
    /\ ~Holds(chain, h)

\* C1: the block with hash h is appended if and only if at least 2f+1
\* distinct senders have voted COMMIT for h: a step appends a block only
\* when it is the COMMIT step that completes 2f+1 distinct voters for the
\* block's hash, and no step leaves the replica with the block body and
\* 2f+1 distinct COMMIT voters for its hash but without the block in the
\* ledger.
C1_CommitIffQuorum ==
    [][/\ chain' # chain =>
              /\ Handled("COMMIT")
              /\ chain' = Append(chain, last_block(chain'))
              /\ last_block(chain').hash = message'.block_data.hash
              /\ Cardinality(commit_messages[message'.block_data.hash]
                                 \cup {message'.sender_id})
                     >= CommitThreshold
       /\ \A h \in VoteHashes : ~HeldBack(h)']_vars

\* C2: the ledger is hash-linked in every reachable state: each block after
\* the first names the hash of the block before it and has the next index.
C2_ChainLinked ==
    \A i \in 2..Len(chain) : Links(chain[i - 1], chain[i])

\* the elements of a list
Range(l) == {l[i] : i \in 1..Len(l)}

\* C3: a sender contributes at most 1 to the count of a phase and hash, in
\* the list-based node as in the set-based one: the recorded count equals
\* the number of distinct senders that voted.
C3_VoteOncePerSender ==
    \A h \in VoteHashes :
        /\ Len(but_prepare_messages[h])
               = Cardinality(Range(but_prepare_messages[h]))
        /\ Len(but_commit_messages[h])
               = Cardinality(Range(but_commit_messages[h]))

\* C4: when 2f+1 distinct COMMIT voters for h are recorded and the
\* PRE-PREPARE carrying the block with hash h is processed, that step
\* appends the block.
C4_AppendOnLatePrePrepare ==
    [][(/\ Handled("PRE-PREPARE")
        /\ Cardinality(commit_messages[message'.block_data.hash])
               >= CommitThreshold)
       => chain' = Append(chain, message'.block_data)]_vars

\* C5: a block that does not link to the last block is rejected and leaves
\* the chain unchanged: every step that changes the chain appends one block
\* that links to the block that was last.
C5_AppendRejectsUnlinked ==
    [][chain' # chain =>
           /\ chain' = Append(chain, last_block(chain'))
           /\ Links(last_block(chain), last_block(chain'))]_vars

\* C6: after a PREPARE for hash h is handled, the status is
\* COMMIT_BROADCASTED exactly when at least 2f distinct senders have voted
\* PREPARE for h, and WAITING_FOR_MORE_PREPARES otherwise; with f = 1 it is
\* COMMIT_BROADCASTED at 2 distinct senders and not at 1.
C6_PreparedStatus ==
    message.message_type = "PREPARE" =>
        LET n == Cardinality(prepare_messages[message.block_data.hash])
        IN  /\ response \in {"COMMIT_BROADCASTED", "WAITING_FOR_MORE_PREPARES"}
            /\ response = "COMMIT_BROADCASTED" <=> n >= 2 * f
            /\ (f = 1 /\ n = 1) => response = "WAITING_FOR_MORE_PREPARES"
            /\ (f = 1 /\ n = 2) => response = "COMMIT_BROADCASTED"

\* C6 witness: f = 1, the second distinct PREPARE sender for a hash has just
\* been handled, and the status is COMMIT_BROADCASTED.
C6_Witness ==
    /\ f = 1
    /\ message.message_type = "PREPARE"
    /\ Cardinality(prepare_messages[message.block_data.hash]) = 2
    /\ response = "COMMIT_BROADCASTED"

\* C7: handle_prepare returns COMMIT_BROADCASTED only on the delivery at
\* which the PREPARE count for the hash reaches the threshold for the first
\* time: with f >= 1, the count was below the threshold before the step.
C7_CommitBroadcastOnce ==
    [][(f >= 1 /\ Handled("PREPARE") /\ response' = "COMMIT_BROADCASTED") =>
           Cardinality(prepare_messages[message'.block_data.hash])
               < PrepareThreshold]_vars

\* C8: a COMMIT step that returns BLOCK_ADDED for hash h appends exactly the
\* pending block, whose hash is h, clears pending_block and leaves no
\* PREPARE or COMMIT voters for h; with f = 1 and a matching pending block
\* the third distinct COMMIT sender returns BLOCK_ADDED.
C8_BlockAdded ==
    [][Handled("COMMIT") =>
           LET h == message'.block_data.hash
               s == message'.sender_id
           IN  /\ response' = "BLOCK_ADDED" =>
                      /\ PendingMatches(h)
                      /\ chain' = Append(chain, pending_block)
                      /\ pending_block' = None
                      /\ prepare_messages'[h] = {}
                      /\ commit_messages'[h] = {}
                      /\ Cardinality(commit_messages[h] \cup {s})
                             >= 2 * f + 1
               /\ (/\ f = 1
                   /\ PendingMatches(h)
                   /\ Cardinality(commit_messages[h]) = 2
                   /\ s \notin commit_messages[h])
                      => response' = "BLOCK_ADDED"]_vars

\* C8 witness: f = 1, a COMMIT for the hash of Block1 has returned
\* BLOCK_ADDED, the ledger is the genesis block and Block1, and the round is
\* reset.
C8_Witness ==
    /\ f = 1
    /\ message.message_type = "COMMIT"
    /\ message.block_data.hash = Block1.hash
    /\ response = "BLOCK_ADDED"
    /\ chain = <<GenesisBlock, Block1>>
    /\ pending_block = None
    /\ commit_messages[Block1.hash] = {}

\* C9: a COMMIT step after which 2f+1 distinct senders have voted for h,
\* while pending_block is absent or has another hash, records the vote and
\* keeps the voters of h, changes neither the ledger nor pending_block nor
\* any PREPARE voter set, and returns WAITING_FOR_MORE_COMMITS.
C9_StaleQuorumKept ==
    [][Handled("COMMIT") =>
           LET h == message'.block_data.hash
               votes == commit_messages[h] \cup {message'.sender_id}
           IN  (/\ Cardinality(votes) >= 2 * f + 1
                /\ ~(pending_block # None /\ pending_block.hash = h))
               => /\ commit_messages' = [commit_messages EXCEPT ![h] = votes]
                  /\ chain' = chain
                  /\ pending_block' = pending_block
                  /\ prepare_messages' = prepare_messages
                  /\ response' = "WAITING_FOR_MORE_COMMITS"]_vars

\* C9 witness: f = 1, the third distinct COMMIT sender for a hash has just
\* been handled while the pending block has another hash; the three voters
\* are kept and nothing was appended.
C9_Witness ==
    /\ f = 1
    /\ message.message_type = "COMMIT"
    /\ response = "WAITING_FOR_MORE_COMMITS"
    /\ Cardinality(commit_messages[message.block_data.hash]) = 3
    /\ pending_block # None
    /\ pending_block.hash # message.block_data.hash
    /\ chain = <<GenesisBlock>>

\* C10: handlers that overlap are serialized, so two handle_commit calls
\* never append the same pending block twice: no state has two threads that
\* have both appended for the same hash and not yet reset, with the ledger
\* ending in the same block twice.
C10_NoDoubleAppend ==
    ~ \E t \in Threads, u \in Threads :
          /\ t # u
          /\ pc[t] \in {"commit_log", "commit_reset"}
          /\ pc[u] \in {"commit_log", "commit_reset"}
          /\ req[t].block_data.hash = req[u].block_data.hash
          /\ Len(chain) >= 3
          /\ chain[Len(chain)] = chain[Len(chain) - 1]

\* a is a prefix of b
IsPrefix(a, b) == Len(a) <= Len(b) /\ SubSeq(b, 1, Len(a)) = a

IsBlock(x) == "hash" \in DOMAIN x

\* the step is a cast_vote that ran propose_block to its end
Proposes == Handled("VOTE") /\ IsBlock(new_block') /\ votes_to_process' = <<>>

\* C12: at most one block is in flight.  The primary proposes a block only
\* when the block it proposed before is on its ledger (its round has
\* committed), and a pending block is replaced only by the commit of its
\* round, never by a different block.  The system has backups: f >= 1.
C12_OneBlockInFlight ==
    [][/\ (f >= 1 /\ Proposes) =>
              (IsBlock(new_block) => Holds(chain, new_block.hash))
       /\ (pending_block # None /\ pending_block' # pending_block) =>
              /\ pending_block' = None
              /\ chain' = Append(chain, pending_block)]_vars

\* C13: handle_pre_prepare accepts in every state: after the step the
\* pending block is the block of the message, whatever was pending before,
\* the status is PREPARE_BROADCASTED, and the ledger and every PREPARE and
\* COMMIT voter set are as before.
C13_PrePrepareFrame ==
    [][Handled("PRE-PREPARE") =>
           /\ pending_block' = message'.block_data
           /\ response' = "PREPARE_BROADCASTED"
           /\ chain' = chain
           /\ prepare_messages' = prepare_messages
           /\ commit_messages' = commit_messages]_vars

\* C13 witness: a PRE-PREPARE for Block2 has been accepted by a replica
\* that already had Block1 on its ledger and voters recorded in both phases.
C13_Witness ==
    /\ message.message_type = "PRE-PREPARE"
    /\ response = "PREPARE_BROADCASTED"
    /\ pending_block = Block2
    /\ chain = <<GenesisBlock, Block1>>
    /\ \E h \in VoteHashes : prepare_messages[h] # {}
    /\ \E h \in VoteHashes : commit_messages[h] # {}

\* C14: handle_prepare records the vote for any hash, pending or not: the
\* sender joins the PREPARE voters of the message's hash, and the voters of
\* other hashes, pending_block, the ledger and the COMMIT voters are as
\* before; a later PRE-PREPARE keeps the PREPARE voters, so early votes still
\* count.
C14_PrepareFrame ==
    [][/\ Handled("PREPARE") =>
              LET h == message'.block_data.hash
                  s == message'.sender_id
              IN  /\ prepare_messages' =
                         [prepare_messages EXCEPT ![h] = @ \cup {s}]
                  /\ pending_block' = pending_block
                  /\ chain' = chain
                  /\ commit_messages' = commit_messages
       /\ Handled("PRE-PREPARE") => prepare_messages' = prepare_messages]_vars

\* C14 witness: with f = 1 and no pending block, two senders have voted
\* PREPARE for the hash of Block1, and the second vote was just handled.
C14_Witness ==
    /\ f = 1
    /\ message.message_type = "PREPARE"
    /\ message.block_data.hash = Block1.hash
    /\ pending_block = None
    /\ Cardinality(prepare_messages[Block1.hash]) = 2
    /\ message.sender_id \in prepare_messages[Block1.hash]
    /\ chain = <<GenesisBlock>>

\* the replica has posted a message of type ty for hash h, in its own name
\* and view 0, to every peer
Sent(box, ty, route, h) ==
    \A r \in NODE_ADDRESSES \ {node_id} :
        \E p \in box :
            /\ p.to = r
            /\ p.route = route
            /\ p.body.message_type = ty
            /\ p.body.view = 0
            /\ p.body.sender_id = node_id
            /\ p.body.block.hash = h

\* C15: the status of a handler drives the next step.  In a system with
\* peers (f >= 1), after a step in which handle_pre_prepare accepts a block
\* the replica has posted PREPARE for the hash of its pending block to its
\* peers, and after a step in which handle_prepare reports the prepared
\* threshold it has posted COMMIT for that hash to its peers.
C15_StatusDrivesBroadcast ==
    [][f >= 1 =>
           /\ (Handled("PRE-PREPARE") /\ response' = "PREPARE_BROADCASTED")
                  => Sent(outbox', "PREPARE", "/prepare", pending_block'.hash)
           /\ (Handled("PREPARE") /\ response' = "COMMIT_BROADCASTED")
                  => Sent(outbox', "COMMIT", "/commit",
                          message'.block_data.hash)]_vars

\* C16: create_block(votes) returns a block chained onto the tail of the
\* ledger (index one more than the last block's, previous hash the last
\* block's hash, the given votes in order) and changes no replica state.
\* The call is the one propose_block makes with the buffered votes.
C16_CreateBlockChained ==
    [][(is_primary /\ Handled("VOTE") /\ Len(votes_to_process) >= 1) =>
           /\ IsBlock(new_block')
           /\ new_block'.index = last_block(chain).index + 1
           /\ new_block'.previous_hash = last_block(chain).hash
           /\ new_block'.transactions =
                  Append(votes_to_process, message'.voter_id)
           /\ UNCHANGED nodeVars]_vars

\* C18: a block is appended at most once: no two positions of the ledger
\* hold a block with the same hash, also after the PRE-PREPARE and the COMMIT
\* votes of a committed hash are delivered again (f >= 1: a commit takes
\* three COMMIT senders).
C18_AppendedOnce ==
    f >= 1 =>
        \A i \in 1..Len(chain), j \in 1..Len(chain) :
            i # j => chain[i].hash # chain[j].hash

\* C20: the primary commits what it proposes: when the primary has proposed
\* a block and the COMMIT voters it has recorded for the block's hash are a
\* quorum, the block is on the primary's ledger (the quorum-completing COMMIT
\* found it pending and appended it).
C20_PrimaryCommits ==
    (/\ is_primary
     /\ f >= 1
     /\ IsBlock(new_block)
     /\ new_block.hash \in ApiHashes
     /\ Cardinality(commit_messages[new_block.hash]) >= CommitThreshold)
        => Holds(chain, new_block.hash)

\* the blocks the primary can propose on the genesis block
Proposals ==
    {create_block(<<GenesisBlock>>, <<v, w>>) : v \in VoteIds, w \in VoteIds}

\* every backup of the system has block b on its ledger
OnAllBackups(b) ==
    \A r \in DOMAIN nodes : r # Primary => Holds(nodes[r].chain, b.hash)

\* C19: liveness with no faults.  All 3f+1 replicas (f >= 1) run the code
\* and every post is made: whenever the primary has proposed a block, every
\* backup eventually has that block on its ledger.
C19_BackupsAppend ==
    \A b \in Proposals : (new_block = b) ~> OnAllBackups(b)

====
